---- MODULE Spec2Model ----
(***************************************************************************)
(* Personal budget tracker (src/budget_tracker.py): the BudgetTracker      *)
(* store, its aggregate queries, validate_date and the interactive session *)
(* of main().                                                              *)
(*                                                                         *)
(* Text is a sequence of characters, so that the conversions the program   *)
(* performs (strftime, strptime, the regular expressions, split, int,      *)
(* float) are computed and not assumed.  A character is a one-character    *)
(* string, or the code point name of a fullwidth digit ("U+FF10" is        *)
(* FULLWIDTH DIGIT ZERO): Python's \d and int() take every Unicode decimal *)
(* digit, a bracketed range such as [0-9] only the ASCII ones.             *)
(*                                                                         *)
(* Amounts are the integer-valued floats: on them float addition, negation *)
(* and comparison are exact.  The wall clock is a calendar date:           *)
(* datetime.now() is only ever formatted as a date or compared with a      *)
(* midnight, and neither depends on the time of day.                       *)
(***************************************************************************)
EXTENDS Integers, Sequences, FiniteSets, TLC

VARIABLES transactions, categories, now, phase, last

vars == <<transactions, categories, now, phase, last>>

\* Most transactions a run of the model stores.
MaxTx == 2
\* Most midnights a run of the model crosses.
MaxTicks == 1

-----------------------------------------------------------------------------
(* Text *)

DigitChars == <<"0", "1", "2", "3", "4", "5", "6", "7", "8", "9">>

\* the fullwidth digits, U+FF10 to U+FF19
WideDigitChars ==
    <<"U+FF10", "U+FF11", "U+FF12", "U+FF13", "U+FF14",
      "U+FF15", "U+FF16", "U+FF17", "U+FF18", "U+FF19">>

AsciiDigitSet == {DigitChars[i] : i \in 1..10}

\* the characters \d matches
DigitSet == AsciiDigitSet \cup {WideDigitChars[i] : i \in 1..10}

IsDigit(c) == c \in DigitSet

\* the value int() gives a decimal digit
DigitVal(c) ==
    (CHOOSE i \in 1..10 : DigitChars[i] = c \/ WideDigitChars[i] = c) - 1

\* the characters the range [lo-hi] matches, lo and hi ASCII digits
InRange(c, lo, hi) == c \in AsciiDigitSet /\ lo <= DigitVal(c) /\ DigitVal(c) <= hi

AllDigits(s) == \A i \in 1..Len(s) : IsDigit(s[i])

\* int(s) for a non-empty run of decimal digits
RECURSIVE ToIntFrom(_, _, _)
ToIntFrom(s, i, acc) ==
    IF i > Len(s) THEN acc ELSE ToIntFrom(s, i + 1, acc * 10 + DigitVal(s[i]))

ToInt(s) == ToIntFrom(s, 1, 0)

\* s.find(sep) from position i on, counted from 1; 0 when sep does not occur
RECURSIVE Find(_, _, _)
Find(s, sep, i) ==
    IF i > Len(s) THEN 0
    ELSE IF s[i] = sep THEN i
    ELSE Find(s, sep, i + 1)

\* s.split(sep): the pieces of s between the occurrences of the character sep
RECURSIVE Split(_, _)
Split(s, sep) ==
    LET k == Find(s, sep, 1) IN
    IF k = 0 THEN <<s>>
    ELSE <<SubSeq(s, 1, k - 1)>> \o Split(SubSeq(s, k + 1, Len(s)), sep)

\* s.strip() on the characters a typed line can hold
RECURSIVE Strip(_)
Strip(s) ==
    IF s = <<>> THEN s
    ELSE IF s[1] = " " THEN Strip(Tail(s))
    ELSE IF s[Len(s)] = " " THEN Strip(SubSeq(s, 1, Len(s) - 1))
    ELSE s

\* the decimal digits of n >= 0, zero-padded on the left to at least width
RECURSIVE ZeroPad(_, _)
ZeroPad(n, width) ==
    IF n < 10 /\ width <= 1 THEN <<DigitChars[n + 1]>>
    ELSE ZeroPad(n \div 10, width - 1) \o <<DigitChars[(n % 10) + 1]>>

\* re.match(r'^\d{4}-\d{2}-\d{2}$', s) on a line without a newline
MatchesDatePattern(s) ==
    /\ Len(s) = 10
    /\ \A i \in {1, 2, 3, 4, 6, 7, 9, 10} : IsDigit(s[i])
    /\ s[5] = "-"
    /\ s[8] = "-"

\* re.match(r'^\d{2}-\d{4}$', s) on a line without a newline
MatchesMonthPattern(s) ==
    /\ Len(s) = 7
    /\ \A i \in {1, 2, 4, 5, 6, 7} : IsDigit(s[i])
    /\ s[3] = "-"

-----------------------------------------------------------------------------
(* datetime *)

ValueError == [error |-> "ValueError"]

\* the calendar's leap years, as datetime computes them
IsLeap(year) == year % 4 = 0 /\ (year % 100 # 0 \/ year % 400 = 0)

DaysInMonth(year, month) ==
    IF month = 2 THEN (IF IsLeap(year) THEN 29 ELSE 28)
    ELSE IF month \in {4, 6, 9, 11} THEN 30
    ELSE 31

\* datetime.datetime(year, month, day): the midnight of that date, or
\* ValueError outside MINYEAR..MAXYEAR, 1..12 or the month's days
datetime(year, month, day) ==
    IF /\ 1 <= year /\ year <= 9999
       /\ 1 <= month /\ month <= 12
       /\ 1 <= day /\ day <= DaysInMonth(year, month)
    THEN [year |-> year, month |-> month, day |-> day]
    ELSE ValueError

\* a faulty comparison: a >= b
DateGE(a, b) ==
    \/ a.year > b.year
    \/ a.year = b.year /\ a.month > b.month
    \/ a.year = b.year /\ a.month = b.month /\ a.day >= b.day

\* a > b on two datetimes at midnight
DateGT(a, b) ==
    \/ a.year > b.year
    \/ a.year = b.year /\ a.month > b.month
    \/ a.year = b.year /\ a.month = b.month /\ a.day > b.day

\* the date on which the clock stands one midnight later
NextDay(d) ==
    IF d.day < DaysInMonth(d.year, d.month)
    THEN [d EXCEPT !.day = d.day + 1]
    ELSE IF d.month < 12
    THEN [d EXCEPT !.month = d.month + 1, !.day = 1]
    ELSE [year |-> d.year + 1, month |-> 1, day |-> 1]

\* d.strftime("%Y-%m-%d")
strftime(d) ==
    ZeroPad(d.year, 4) \o <<"-">> \o ZeroPad(d.month, 2) \o <<"-">> \o ZeroPad(d.day, 2)

\* the %m field of strptime: 1[0-2]|0[1-9]|[1-9]
MatchesMonthField(p) ==
    \/ Len(p) = 2 /\ p[1] = "1" /\ InRange(p[2], 0, 2)
    \/ Len(p) = 2 /\ p[1] = "0" /\ InRange(p[2], 1, 9)
    \/ Len(p) = 1 /\ InRange(p[1], 1, 9)

\* the %d field of strptime: 3[0-1]|[1-2]\d|0[1-9]|[1-9]| [1-9]
MatchesDayField(p) ==
    \/ Len(p) = 2 /\ p[1] = "3" /\ InRange(p[2], 0, 1)
    \/ Len(p) = 2 /\ InRange(p[1], 1, 2) /\ IsDigit(p[2])
    \/ Len(p) = 2 /\ p[1] = "0" /\ InRange(p[2], 1, 9)
    \/ Len(p) = 1 /\ InRange(p[1], 1, 9)
    \/ Len(p) = 2 /\ p[1] = " " /\ InRange(p[2], 1, 9)

\* the %Y field of strptime: \d\d\d\d
MatchesYearField(p) == Len(p) = 4 /\ AllDigits(p)

\* datetime.datetime.strptime(s, "%Y-%m-%d"): the date, or ValueError when
\* s does not match the format or names no date
strptime(s) ==
    LET parts == Split(s, "-") IN
    IF /\ Len(parts) = 3
       /\ MatchesYearField(parts[1])
       /\ MatchesMonthField(parts[2])
       /\ MatchesDayField(parts[3])
    THEN datetime(ToInt(parts[1]), ToInt(parts[2]),
                  ToInt(SelectSeq(parts[3], IsDigit)))
    ELSE ValueError

-----------------------------------------------------------------------------
(* BudgetTracker *)

\* Python's None, and a str, as the optional date argument
None == [is_none |-> TRUE, value |-> <<>>]

Str(s) == [is_none |-> FALSE, value |-> s]

\* the value a function returns when it returns nothing
NoneValue == [none |-> TRUE]

\* add_transaction's date: today's date, formatted, when the argument is None
DefaultDate(date) == IF date.is_none THEN strftime(now) ELSE date.value

\* the dict add_transaction builds
NewTransaction(amount, description, category, date) ==
    [amount |-> amount, description |-> description,
     category |-> category, date |-> date]

\* a faulty list.append: the new item is put first
ListPrepend(list, item) == <<item>> \o list

\* list.append
ListAppend(list, item) == Append(list, item)

\* a faulty set.add: the set keeps only the new item
SetReplace(set, item) == {item}

\* set.add
SetAdd(set, item) == set \cup {item}

\* BudgetTracker.add_transaction
add_transaction(amount, description, category, date) ==
    LET stored_date == DefaultDate(date)
        transaction == NewTransaction(amount, description, category, stored_date)
    IN  /\ Len(transactions) < MaxTx
        /\ transactions' = ListAppend(transactions, transaction)
        /\ categories' = SetAdd(categories, category)
        /\ last' = [op |-> "add_transaction",
                    args |-> <<amount, description, category, date>>,
                    ret |-> [printed |-> <<"Added", description, amount, stored_date>>]]

Abs(x) == IF x < 0 THEN -x ELSE x

IsIncome(t) == t.amount > 0

IsExpense(t) == t.amount < 0

\* sum(t['amount'] for t in list)
RECURSIVE SumAmounts(_)
SumAmounts(list) ==
    IF list = <<>> THEN 0 ELSE list[1].amount + SumAmounts(Tail(list))

\* get_balance: total_income
TotalIncome(list) == SumAmounts(SelectSeq(list, IsIncome))

\* a faulty total_expenses: the expenses summed as magnitudes
TotalExpensesMagnitude(list) == SumAmounts([i \in 1..Len(SelectSeq(list, IsExpense)) |->
    [amount |-> Abs(SelectSeq(list, IsExpense)[i].amount)]])

\* get_balance: total_expenses
TotalExpenses(list) == SumAmounts(SelectSeq(list, IsExpense))

\* get_balance: balance
Balance(list) == TotalIncome(list) + TotalExpenses(list)

\* get_balance: the advice printed; balance < total_income * 0.1 compared
\* tenfold, which is the same comparison on integer-valued amounts
Advice(balance, total_income) ==
    IF balance < 0 THEN "WARNING: You are spending more than you earn!"
    ELSE IF balance * 10 < total_income THEN "TIP: Try to save more for emergencies!"
    ELSE "Great! You're saving money!"

\* BudgetTracker.get_balance
get_balance ==
    /\ last' = [op |-> "get_balance", args |-> <<>>,
                ret |-> Balance(transactions),
                advice |-> Advice(Balance(transactions), TotalIncome(transactions))]
    /\ UNCHANGED <<transactions, categories>>

\* BudgetTracker.view_transactions: what it lists, or its notice
ViewListing(list) ==
    IF list = <<>> THEN [printed |-> "No transactions recorded yet!"]
    ELSE [income_transactions |-> SelectSeq(list, IsIncome),
          expense_transactions |-> SelectSeq(list, IsExpense)]

\* BudgetTracker.view_transactions
view_transactions ==
    /\ last' = [op |-> "view_transactions", args |-> <<>>,
                ret |-> NoneValue, shown |-> ViewListing(transactions)]
    /\ UNCHANGED <<transactions, categories>>

\* a faulty loop body: every amount is counted, not only the expenses
CountEveryAmount(category_totals, transaction) ==
    IF transaction.category \in DOMAIN category_totals
    THEN [category_totals EXCEPT
             ![transaction.category] = @ + Abs(transaction.amount)]
    ELSE category_totals @@ (transaction.category :> Abs(transaction.amount))

\* one pass of spending_by_category's loop body over a transaction
CountExpense(category_totals, transaction) ==
    IF transaction.amount < 0
    THEN IF transaction.category \in DOMAIN category_totals
         THEN [category_totals EXCEPT
                  ![transaction.category] = @ + Abs(transaction.amount)]
         ELSE category_totals @@ (transaction.category :> Abs(transaction.amount))
    ELSE category_totals

\* spending_by_category's loop over the first n transactions
RECURSIVE CategoryTotals(_, _)
CategoryTotals(list, n) ==
    IF n = 0 THEN <<>>
    ELSE CountExpense(CategoryTotals(list, n - 1), list[n])

\* a faulty spending_by_category: no early return on an empty store
SpendingShownUnguarded(list) ==
    [category_totals |-> CategoryTotals(list, Len(list))]

\* BudgetTracker.spending_by_category: it returns None always; what it shows
\* is the mapping it built, or a notice and no mapping on an empty store
SpendingShown(list) ==
    IF list = <<>> THEN [printed |-> "No transactions to analyze!"]
    ELSE [category_totals |-> CategoryTotals(list, Len(list))]

spending_by_category ==
    /\ last' = [op |-> "spending_by_category", args |-> <<>>,
                ret |-> NoneValue, shown |-> SpendingShown(transactions)]
    /\ UNCHANGED <<transactions, categories>>

-----------------------------------------------------------------------------
(* validate_date and get_valid_date *)

Result(ok, text, detail) == [is_valid |-> ok, message |-> text, detail |-> detail]

\* validate_date's own leap year test
FebruaryMaxDays(year) ==
    IF (year % 4 = 0 /\ year % 100 # 0) \/ (year % 400 = 0) THEN 29 ELSE 28

\* validate_date's checks on the parsed components, in the code's order
ValidateComponents(year, month, day) ==
    IF month < 1 \/ month > 12
    THEN Result(FALSE, "Month must be between 1 and 12", <<>>)
    ELSE IF day < 1 \/ day > 31
    THEN Result(FALSE, "Day must be between 1 and 31", <<>>)
    ELSE IF month \in {4, 6, 9, 11} /\ day > 30
    THEN Result(FALSE, "Month {month} has only 30 days", <<month>>)
    ELSE IF month = 2 /\ day > FebruaryMaxDays(year)
    THEN Result(FALSE, "February {year} has only {max_days} days",
                <<year, FebruaryMaxDays(year)>>)
    ELSE IF datetime(year, month, day) = ValueError
    THEN Result(FALSE, "Invalid date: {str(e)}", <<>>)
    ELSE IF DateGT(datetime(year, month, day), now)
    THEN Result(FALSE, "Date cannot be in the future!", <<>>)
    ELSE Result(TRUE, "Valid date", <<>>)

\* validate_date(date_string)
validate_date(date_string) ==
    IF ~MatchesDatePattern(date_string)
    THEN Result(FALSE, "Date must be in YYYY-MM-DD format (e.g., 2024-01-15)", <<>>)
    ELSE LET parts == Split(date_string, "-")
         IN  ValidateComponents(ToInt(parts[1]), ToInt(parts[2]), ToInt(parts[3]))

\* get_valid_date: the typed lines that end its loop
GetValidDateAccepts(line) ==
    \/ Strip(line) = <<>>
    \/ validate_date(Strip(line)).is_valid

\* get_valid_date: what it returns for a line that ends its loop
GetValidDateReturn(line) ==
    IF Strip(line) = <<>> THEN None ELSE Str(Strip(line))

-----------------------------------------------------------------------------
(* add_income and add_expenses *)

\* the lines float() accepts, among those the model types: an optional
\* minus sign and decimal digits
IsFloatText(line) ==
    /\ line # <<>>
    /\ IF line[1] = "-"
       THEN Len(line) > 1 /\ AllDigits(Tail(line))
       ELSE AllDigits(line)

\* float(line) for such a line
FloatOf(line) == IF line[1] = "-" THEN -ToInt(Tail(line)) ELSE ToInt(line)

\* add_income: the amount lines that end its loop
IncomeAmountAccepts(line) == IsFloatText(line) /\ ~(FloatOf(line) <= 0)

\* add_expenses: the amount its loop ends with (every number ends it)
ExpenseAmount(amount) == IF amount >= 0 THEN -amount ELSE amount

\* add_income(tracker), from its prompts to the add_transaction call
add_income(amount_line, description, date_line) ==
    /\ IncomeAmountAccepts(amount_line)
    /\ GetValidDateAccepts(date_line)
    /\ add_transaction(FloatOf(amount_line), description, "Income",
                       GetValidDateReturn(date_line))

\* add_expenses(tracker), from its prompts to the add_transaction call
add_expenses(amount_line, description, category, date_line) ==
    /\ IsFloatText(amount_line)
    /\ GetValidDateAccepts(date_line)
    /\ add_transaction(ExpenseAmount(FloatOf(amount_line)), description, category,
                       GetValidDateReturn(date_line))

-----------------------------------------------------------------------------
(* view_transactions_by_month *)

\* the month lines that end the prompt loop
MonthInputAccepts(line) ==
    LET text == Strip(line) IN
    \/ text = <<>>
    \/ /\ MatchesMonthPattern(text)
       /\ LET parts == Split(text, "-")
              month == ToInt(parts[1])
              year == ToInt(parts[2])
          IN  /\ ~(month < 1 \/ month > 12)
              /\ ~(year < 1900 \/ year > now.year)

\* target_month and target_year for a line that ends the loop
Target(line) ==
    LET text == Strip(line) IN
    IF text = <<>> THEN [month |-> now.month, year |-> now.year]
    ELSE LET parts == Split(text, "-")
         IN  [month |-> ToInt(parts[1]), year |-> ToInt(parts[2])]

\* the filter loop raises the ValueError of strptime on a stored date that
\* does not parse
FilterRaises(list) ==
    \E i \in 1..Len(list) : strptime(list[i].date) = ValueError

\* the filter loop when it does not raise: the matching transactions, in order
MonthFilter(list, target_month, target_year) ==
    LET Matches(t) ==
            LET trans_date == strptime(t.date)
            IN  trans_date.month = target_month /\ trans_date.year = target_year
    IN  SelectSeq(list, Matches)

\* what the function shows once the filter has run
MonthShown(month_transactions, target) ==
    IF month_transactions = <<>>
    THEN [printed |-> "No transactions found for {target_month:02d}-{target_year}",
          target |-> target,
          month_transactions |-> month_transactions]
    ELSE [target |-> target,
          month_transactions |-> month_transactions,
          income_transactions |-> SelectSeq(month_transactions, IsIncome),
          expense_transactions |-> SelectSeq(month_transactions, IsExpense),
          monthly_balance |-> Balance(month_transactions)]

\* view_transactions_by_month(tracker)
view_transactions_by_month(month_line) ==
    /\ transactions # <<>> => MonthInputAccepts(month_line)
    /\ last' =
         IF transactions = <<>>
         THEN [op |-> "view_transactions_by_month", args |-> <<>>,
               ret |-> NoneValue,
               shown |-> [printed |-> "No transactions recorded yet!"]]
         ELSE LET target == Target(month_line)
              IN  IF FilterRaises(transactions)
                  THEN [op |-> "view_transactions_by_month", args |-> <<month_line>>,
                        ret |-> ValueError, shown |-> [target |-> target]]
                  ELSE [op |-> "view_transactions_by_month", args |-> <<month_line>>,
                        ret |-> NoneValue,
                        shown |-> MonthShown(MonthFilter(transactions, target.month,
                                                         target.year), target)]
    /\ UNCHANGED <<transactions, categories>>

-----------------------------------------------------------------------------
(* The clock *)

\* the date on which the model's clock starts: the eve of a leap day
ClockStart == [year |-> 2024, month |-> 2, day |-> 28]

RECURSIVE AddDays(_, _)
AddDays(d, n) == IF n = 0 THEN d ELSE NextDay(AddDays(d, n - 1))

\* midnight passes
Tick ==
    /\ now # AddDays(ClockStart, MaxTicks)
    /\ now' = NextDay(now)
    /\ UNCHANGED <<transactions, categories, phase, last>>

-----------------------------------------------------------------------------
(* Direct use of the BudgetTracker class and of view_transactions_by_month,
   on one day: of these operations only the default date and the default
   month read the clock, and the session below runs them across midnights. *)

ApiAmounts == {-50, 0, 100}

ApiDescriptions == {"Salary"}

ApiCategories == {"Income", "Housing"}

\* date arguments as the caller contract allows them: absent, empty, or a
\* date that validate_date accepts
ApiDates == {None, Str(<<>>), Str(<<"2", "0", "2", "3", "-", "1", "2", "-", "3", "1">>)}

MonthLines ==
    {<<>>, <<"0", "2", "-", "2", "0", "2", "4">>, <<"0", "2", "-", "2", "0", "2", "3">>, <<"0", "1", "-", "2", "0", "2", "4">>, <<"1", "2", "-", "2", "0", "2", "3">>, <<"1", "3", "-", "2", "0", "2", "4">>, <<"0", "2", "-", "2", "0", "2", "5">>, <<"0", "2", "-", "1", "8", "9", "9">>, <<"2", "-", "2", "0", "2", "4">>}

ApiMonthLines == {<<>>, <<"1", "2", "-", "2", "0", "2", "3">>, <<"1", "3", "-", "2", "0", "2", "3">>}

InitTracker ==
    /\ transactions = <<>>
    /\ categories = {}
    /\ now = ClockStart
    /\ last = [op |-> "__init__", args |-> <<>>, ret |-> NoneValue]

Init == InitTracker /\ phase = "api"

AddTransaction ==
    /\ \E amount \in ApiAmounts, description \in ApiDescriptions,
          category \in ApiCategories, date \in ApiDates :
          add_transaction(amount, description, category, date)
    /\ UNCHANGED <<now, phase>>

ViewTransactions == view_transactions /\ UNCHANGED <<now, phase>>

GetBalance == get_balance /\ UNCHANGED <<now, phase>>

SpendingByCategory == spending_by_category /\ UNCHANGED <<now, phase>>

ViewTransactionsByMonth ==
    /\ \E month_line \in ApiMonthLines : view_transactions_by_month(month_line)
    /\ UNCHANGED <<now, phase>>

Next ==
    \/ AddTransaction
    \/ ViewTransactions
    \/ GetBalance
    \/ SpendingByCategory
    \/ ViewTransactionsByMonth

Spec == Init /\ [][Next]_vars

-----------------------------------------------------------------------------
(* validate_date on its own *)

TextOfDate(year, month, day) ==
    ZeroPad(year, 4) \o <<"-">> \o ZeroPad(month, 2) \o <<"-">> \o ZeroPad(day, 2)

ProbeYears == {0, 1, 1900, 2000, 2023, 2024, 2025}

ProbeMonths == {0, 1, 2, 3, 4, 12, 13}

ProbeDays == {0, 1, 28, 29, 30, 31, 32}

\* the strings of the form YYYY-MM-DD that the model hands to validate_date
WellFormedLines ==
    {TextOfDate(y, m, d) : y \in ProbeYears, m \in ProbeMonths, d \in ProbeDays}

\* strings of other forms, and dates typed with fullwidth digits
OtherLines ==
    {<<>>, <<"2", "0", "2", "4", "-", "2", "-", "2", "8">>, <<"2", "0", "2", "4", "0", "2", "2", "8">>, <<"2", "0", "2", "4", "/", "0", "2", "/", "2", "8">>, <<"2", "4", "-", "0", "2", "-", "2", "0", "2", "8">>, <<"2", "0", "2", "4", "-", "0", "2", "-", "2", "8", " ">>, <<"a", "b", "c", "d", "-", "e", "f", "-", "g", "h">>,
     <<"2", "0", "2", "4", "-", "U+FF10", "U+FF12", "-", "2", "8">>,
     <<"U+FF12", "U+FF10", "U+FF12", "U+FF13", "-", "0", "2", "-", "2", "U+FF19">>}

ValidateDate ==
    /\ \E date_string \in WellFormedLines \cup OtherLines :
          last' = [op |-> "validate_date", args |-> <<date_string>>,
                   ret |-> validate_date(date_string)]
    /\ UNCHANGED <<transactions, categories, now, phase>>

ValidateNext == ValidateDate \/ Tick

ValidateSpec == Init /\ [][ValidateNext]_vars

-----------------------------------------------------------------------------
(* The session of main() *)

AmountLines == {<<"1", "0", "0">>, <<"0">>, <<"-", "5", "0">>, <<"a", "b", "c">>, <<>>}

SessionDescriptions == {"Rent"}

SessionCategories == {"Housing"}

DateLines ==
    {<<>>, <<" ">>, <<"2", "0", "2", "4", "-", "0", "2", "-", "2", "9">>, <<"2", "0", "2", "3", "-", "0", "2", "-", "2", "8">>, <<"2", "0", "2", "4", "-", "0", "1", "-", "3", "1">>, <<"2", "0", "2", "3", "-", "0", "2", "-", "2", "9">>, <<"2", "0", "2", "4", "-", "0", "2", "-", "3", "0">>, <<"2", "0", "2", "4", "-", "2", "-", "2", "9">>, <<"0", "0", "0", "0", "-", "0", "1", "-", "0", "1">>,
     <<"2", "0", "2", "4", "-", "U+FF10", "U+FF11", "-", "3", "1">>}

SessionInit == InitTracker /\ phase = "setup_income"

\* main: an add_income call of either loop, and where its answer leads
AddIncome ==
    /\ phase \in {"setup_income", "menu", "menu_income"}
    /\ \E amount_line \in AmountLines, description \in SessionDescriptions,
          date_line \in DateLines :
          add_income(amount_line, description, date_line)
    /\ \E add_more \in BOOLEAN :
          phase' = IF add_more
                   THEN (IF phase = "setup_income" THEN "setup_income" ELSE "menu_income")
                   ELSE (IF phase = "setup_income" THEN "setup_expenses" ELSE "menu")
    /\ UNCHANGED now

\* main: an add_expenses call of either loop, and where its answer leads
AddExpenses ==
    /\ phase \in {"setup_expenses", "menu", "menu_expenses"}
    /\ \E amount_line \in AmountLines, description \in SessionDescriptions,
          category \in SessionCategories, date_line \in DateLines :
          add_expenses(amount_line, description, category, date_line)
    /\ \E add_more \in BOOLEAN :
          phase' = IF add_more
                   THEN (IF phase = "setup_expenses" THEN "setup_expenses" ELSE "menu_expenses")
                   ELSE (IF phase = "setup_expenses" THEN "setup_summary" ELSE "menu")
    /\ UNCHANGED now

\* main: the summary after the initial setup
SetupSummary ==
    /\ phase = "setup_summary"
    /\ get_balance
    /\ phase' = "menu"
    /\ UNCHANGED now

\* main: choice 3
MenuViewTransactions ==
    /\ phase = "menu"
    /\ view_transactions
    /\ UNCHANGED <<now, phase>>

\* main: choice 4; a ValueError from the filter ends the program
MenuViewByMonth ==
    /\ phase = "menu"
    /\ \E month_line \in MonthLines : view_transactions_by_month(month_line)
    /\ phase' = IF last'.ret = ValueError THEN "crashed" ELSE "menu"
    /\ UNCHANGED now

\* main: choice 5
MenuGetBalance ==
    /\ phase = "menu"
    /\ get_balance
    /\ UNCHANGED <<now, phase>>

\* main: choice 6
MenuSpendingByCategory ==
    /\ phase = "menu"
    /\ spending_by_category
    /\ UNCHANGED <<now, phase>>

\* main: choice 7
MenuExit ==
    /\ phase = "menu"
    /\ get_balance
    /\ phase' = "exit"
    /\ UNCHANGED now

SessionNext ==
    \/ AddIncome
    \/ AddExpenses
    \/ SetupSummary
    \/ MenuViewTransactions
    \/ MenuViewByMonth
    \/ MenuGetBalance
    \/ MenuSpendingByCategory
    \/ MenuExit
    \/ Tick

SessionSpec == SessionInit /\ [][SessionNext]_vars

-----------------------------------------------------------------------------
(* Reference definitions used to state the properties *)

\* the sum of the amounts of list at the indices in S
RECURSIVE SumAt(_, _)
SumAt(list, S) ==
    IF S = {} THEN 0
    ELSE LET i == CHOOSE j \in S : TRUE
         IN  list[i].amount + SumAt(list, S \ {i})

\* the k-th smallest element of a finite set of integers
RECURSIVE Nth(_, _)
Nth(S, k) ==
    LET least == CHOOSE x \in S : \A y \in S : x <= y
    IN  IF k = 1 THEN least ELSE Nth(S \ {least}, k - 1)

\* four digits, two digits, two digits, joined by hyphens
HasDateForm(s) ==
    /\ Len(s) = 10
    /\ s[5] = "-" /\ s[8] = "-"
    /\ \A i \in (1..10) \ {5, 8} : s[i] \in DigitSet

YearOf(s) == 1000 * DigitVal(s[1]) + 100 * DigitVal(s[2]) + 10 * DigitVal(s[3]) + DigitVal(s[4])

MonthOf(s) == 10 * DigitVal(s[6]) + DigitVal(s[7])

DayOf(s) == 10 * DigitVal(s[9]) + DigitVal(s[10])

MonthLengths == <<31, 28, 31, 30, 31, 30, 31, 31, 30, 31, 30, 31>>

LeapYear(y) == (y % 4 = 0 /\ y % 100 # 0) \/ y % 400 = 0

\* month in 1..12 and day between 1 and the length of that month
RealDate(y, m, d) ==
    /\ m \in 1..12
    /\ d >= 1
    /\ d <= (IF m = 2 /\ LeapYear(y) THEN 29 ELSE MonthLengths[m])

\* the date y-m-d is strictly after the date on which the clock stands
AfterToday(y, m, d) ==
    10000 * y + 100 * m + d > 10000 * now.year + 100 * now.month + now.day

-----------------------------------------------------------------------------
(* Properties *)

\* C1: the transactions sequence changes only in an add_transaction step,
\* and then only by gaining one record at its end that holds the amount,
\* description and category passed; the records already stored keep their
\* positions and values, and none is removed.
C1_AppendOnly ==
    [][\/ transactions' = transactions
       \/ /\ last'.op = "add_transaction"
          /\ Len(transactions') = Len(transactions) + 1
          /\ SubSeq(transactions', 1, Len(transactions)) = transactions
          /\ transactions'[Len(transactions')].amount = last'.args[1]
          /\ transactions'[Len(transactions')].description = last'.args[2]
          /\ transactions'[Len(transactions')].category = last'.args[3]]_vars

\* two different records are stored, in the order they were added, and a
\* query has run since
C1_Witness ==
    /\ Len(transactions) = 2
    /\ transactions[1].amount = 100
    /\ transactions[2].amount = -50
    /\ last.op = "view_transactions"

\* C2: an add_transaction call whose date is None or the empty string stores
\* the current date formatted YYYY-MM-DD; any other date is stored as passed.
C2_DefaultDate ==
    [][(last'.op = "add_transaction" /\ transactions' # transactions) =>
          transactions'[Len(transactions')].date =
              (IF last'.args[4].is_none \/ last'.args[4].value = <<>>
               THEN strftime(now)
               ELSE last'.args[4].value)]_vars

C4_CategoryTotals ==
    (last.op = "spending_by_category" /\ transactions # <<>>) =>
        LET totals == last.shown.category_totals
            Expenses(c) == {i \in 1..Len(transactions) :
                               /\ transactions[i].category = c
                               /\ transactions[i].amount < 0}
        IN  /\ DOMAIN totals = {c \in {transactions[i].category : i \in 1..Len(transactions)} :
                                   Expenses(c) # {}}
            /\ \A c \in DOMAIN totals : totals[c] = -SumAt(transactions, Expenses(c))

\* after +100 in "Income" and -50 in "Housing" the mapping is Housing: 50
C4_Witness ==
    /\ last.op = "spending_by_category"
    /\ Len(transactions) = 2
    /\ transactions[1].category = "Income" /\ transactions[1].amount = 100
    /\ transactions[2].category = "Housing" /\ transactions[2].amount = -50
    /\ last.shown.category_totals = ("Housing" :> 50)

\* C5 as stated: on an empty store get_balance returns 0,
\* spending_by_category yields an empty mapping and the month filter an
\* empty list.
C5_EmptyValues ==
    transactions = <<>> =>
        /\ last.op = "get_balance" => last.ret = 0
        /\ last.op = "spending_by_category" =>
              /\ "category_totals" \in DOMAIN last.shown
              /\ last.shown.category_totals = <<>>
        /\ last.op = "view_transactions_by_month" =>
              /\ "month_transactions" \in DOMAIN last.shown
              /\ last.shown.month_transactions = <<>>

\* C5 as amended: on an empty store every aggregate query completes without
\* an error; get_balance returns 0, while spending_by_category and
\* view_transactions_by_month print a notice and return None without
\* building a mapping or a list.
C5_EmptyStore ==
    transactions = <<>> =>
        /\ last.op = "get_balance" => last.ret = 0
        /\ last.op = "spending_by_category" =>
              /\ last.ret = NoneValue
              /\ last.shown = [printed |-> "No transactions to analyze!"]
        /\ last.op = "view_transactions_by_month" =>
              /\ last.ret = NoneValue
              /\ last.shown = [printed |-> "No transactions recorded yet!"]
        /\ last.op = "view_transactions" => last.ret = NoneValue

\* spending_by_category has run on the empty store
C5_Witness ==
    /\ transactions = <<>>
    /\ last.op = "spending_by_category"

\* the transactions of list whose date has the target's month and year,
\* in the order of list
ExactSelection(selected, list, target) ==
    LET matching == {i \in 1..Len(list) :
                        /\ MonthOf(list[i].date) = target.month
                        /\ YearOf(list[i].date) = target.year}
    IN  /\ Len(selected) = Cardinality(matching)
        /\ \A k \in 1..Len(selected) : selected[k] = list[Nth(matching, k)]

\* C6: for every target month in 1..12 and every target year the month
\* filter selects exactly the stored transactions whose date has that month
\* and year, in their order in the store; none is left out.
C6_MonthFilter ==
    (last.op = "view_transactions_by_month" /\ transactions # <<>>) =>
        /\ last.shown.target.month \in 1..12
        /\ last.ret = NoneValue
        /\ ExactSelection(last.shown.month_transactions, transactions, last.shown.target)

\* the part of C6 that the code keeps: when the filter does not raise, its
\* selection is exact
MonthFilterExactWhenParsed ==
    (last.op = "view_transactions_by_month" /\ transactions # <<>>
        /\ last.ret = NoneValue) =>
        ExactSelection(last.shown.month_transactions, transactions, last.shown.target)

\* what C7 says of one validate_date step, with the years it holds for
ValidateAgrees(min_year) ==
    (last' # last /\ last'.op = "validate_date" /\ HasDateForm(last'.args[1])) =>
        LET s == last'.args[1]
        IN  /\ last'.ret.is_valid <=>
                  /\ YearOf(s) >= min_year
                  /\ RealDate(YearOf(s), MonthOf(s), DayOf(s))
                  /\ ~AfterToday(YearOf(s), MonthOf(s), DayOf(s))
            /\ (MonthOf(s) = 2 /\ DayOf(s) = 30) => ~last'.ret.is_valid
            /\ (MonthOf(s) = 2 /\ DayOf(s) = 29 /\ ~LeapYear(YearOf(s))) => ~last'.ret.is_valid
            /\ s = strftime(NextDay(now)) => ~last'.ret.is_valid
            /\ s = strftime(now) => last'.ret.is_valid

\* C7 as stated: for every string of the form YYYY-MM-DD validate_date
\* succeeds exactly when month and day name a real calendar date that is not
\* after the current date; it fails for February 30, for February 29 of a
\* non-leap year and for tomorrow, and succeeds for today.
C7_AnyYear == [][ValidateAgrees(0)]_vars

\* C7 as amended: the same, for the years 0001 to 9999; a string whose year
\* is 0000 is rejected whatever its month and day.
C7_ValidateDate == [][ValidateAgrees(1)]_vars

\* the leap day, on the leap day, has been found valid
C7_Witness ==
    /\ last.op = "validate_date"
    /\ last.args[1] = <<"2", "0", "2", "4", "-", "0", "2", "-", "2", "9">>
    /\ now = [year |-> 2024, month |-> 2, day |-> 29]
    /\ last.ret.is_valid

\* C8: in a session every stored date is a YYYY-MM-DD string naming a real
\* date that is not after the date on which it was recorded (the clock never
\* runs backwards, so not after the current date either), and the month
\* filter never fails to parse a stored date.
C8_StoredDates ==
    /\ \A i \in 1..Len(transactions) :
          LET s == transactions[i].date
          IN  /\ HasDateForm(s)
              /\ YearOf(s) >= 1
              /\ RealDate(YearOf(s), MonthOf(s), DayOf(s))
              /\ ~AfterToday(YearOf(s), MonthOf(s), DayOf(s))
    /\ last.op = "view_transactions_by_month" => last.ret # ValueError
    /\ phase # "crashed"

\* C9: in a session no stored transaction has amount zero.
C9_NonZero ==
    \A i \in 1..Len(transactions) : transactions[i].amount # 0

\* C10: the categories set is exactly the set of the stored transactions'
\* categories (empty for a new tracker; only add_transaction changes it, by
\* inserting its category).
C10_Categories ==
    categories = {transactions[i].category : i \in 1..Len(transactions)}

\* two transactions of two categories are stored
C10_Witness ==
    /\ Len(transactions) = 2
    /\ transactions[1].category # transactions[2].category
    /\ Cardinality(categories) = 2

====
